---- MODULE Spec2Model ----
(***************************************************************************)
(* Model of src/pid_hover.py: main, the HoverPid connection callbacks, the *)
(* logging thread, the telemetry callback _data_log_data and the control   *)
(* thread _hover.                                                          *)
(*                                                                         *)
(* Units.  Altitudes (target_altitude, current_altitude, the entries of    *)
(* altitude_history, average_altitude, error) are counted in units of      *)
(* 0.05 m.  Telemetry altitudes are multiples of WindowLen units, so the   *)
(* mean of the five-entry window is a whole number of units and the        *)
(* division in mean is exact.  Thrust values computed by the PID law       *)
(* (integral, output) are counted in units of 1/Scale thrust: with         *)
(* tu = 3.116 the product ki * step_time is 56000/779 per metre, so every  *)
(* term of the law is a whole multiple of 1/779.  The arithmetic is the    *)
(* exact rational value of the floating-point expressions of the source.   *)
(*                                                                         *)
(* Threads.  Python runs _data_log_data on the library's receiver thread   *)
(* and _hover on its own thread; a thread switch can happen between any    *)
(* two statements, so each statement that touches a shared global is a     *)
(* step of its own.                                                        *)
(***************************************************************************)
EXTENDS Integers, Sequences, FiniteSets, TLC

VARIABLES
    argv,              \* sys.argv[1:], a sequence of tokens
    main_pc,           \* "start", "returned", "raised", "running"
    exit_status,       \* << >> while the process runs, <<code>> once main ended it
    reported,          \* what main printed on the way out
    drivers,           \* cflib.crtp.init_drivers() was called
    target_altitude,   \* global, line 17
    operation_time,    \* global, line 22
    link,              \* "none", "opening", "connected", "failed", "lost", "closed"
    lost_in_flight,    \* the connection was lost while _hover was Hovering or Landing
    log_state,         \* "idle", "starting", "started", "failed"
    current_thrust,    \* global, line 16
    current_altitude,  \* global, line 18
    average_altitude,  \* global, line 19
    altitude_history,  \* global, line 20
    cb_pc,             \* next statement of _data_log_data: "idle", "l75", ...
    cb_data,           \* the sample the running callback was called with
    samples,           \* number of telemetry samples delivered so far
    arrived,           \* the samples the callback was called with, in order
    hover_pc,          \* position of the _hover thread
    i,                 \* loop variable of the Hovering for loop
    time_steps,        \* len(range(int(operation_time / step_time)))
    integral,          \* local of _hover
    prev_error,        \* local of _hover
    error,             \* local of _hover
    output,            \* local of _hover: << >> while unbound, else <<value>>
    flight_data,       \* local of _hover
    sent,              \* every send_setpoint call made, in order
    plotted            \* the altitude values handed to plt.plot, << >> before

vars == << argv, main_pc, exit_status, reported, drivers, target_altitude,
           operation_time, link, lost_in_flight, log_state, current_thrust,
           current_altitude, average_altitude, altitude_history, cb_pc,
           cb_data, samples, arrived,
           hover_pc, i, time_steps, integral, prev_error, error, output,
           flight_data, sent, plotted >>

mainVars  == << argv, main_pc, exit_status, reported, drivers,
                target_altitude, operation_time >>
teleVars  == << current_thrust, current_altitude, average_altitude,
                altitude_history, cb_pc, cb_data, samples, arrived >>
hoverVars == << hover_pc, i, time_steps, integral, prev_error, error, output,
                flight_data, sent, plotted >>

---------------------------------------------------------------------------
(* Bounds of the model *)

\* longest argument list tried
MaxArgc == 3
\* number of telemetry samples the vehicle delivers in one run
MaxSamples == 1
\* the receiver thread is scheduled only while the Hovering loop variable is
\* at most this tick index
MaxArrivalTick == 0
\* the telemetry altitudes are WindowLen * SampleMean * k units, k = 1, 2
SampleMean == 11
\* the telemetry thrusts are SampleThrust * k, k = 1, 2
SampleThrust == 20000

---------------------------------------------------------------------------
(* Program constants *)

\* altitude_history = [0, 0, 0, 0, 0]
WindowLen == 5
\* step_time = 0.01: ticks per second of operation_time
StepsPerSecond == 100
\* denominator of the thrust unit: ti = 0.5 * tu = 1.558 = 779 / 500
Scale == 779
\* kp = 0.6 * ku = 9600 per metre = 480 per altitude unit, times Scale
kp == 373920
\* ki * step_time = 0.7 * (16000 / 1.558) * 0.01 = 56000/779 per metre
\*                = 2800/779 per altitude unit, times Scale
ki_step == 2800
\* kd / step_time = 0.7 * (16000 * 0.3895) / 0.01 = 436240 per metre
\*                = 21812 per altitude unit, times Scale
kd_step == 16991548
\* base_thrust = 38250
base_thrust == 38250
\* upper limit of the clamp in the Hovering loop
MaxThrust == 60000
\* lower limit of the clamp in the Hovering loop
MinThrust == 0
\* while output > 20000
LandingFloor == 20000
\* output -= 75
LandingStep == 75

---------------------------------------------------------------------------
(* Pure functions *)

min(a, b) == IF b < a THEN b ELSE a
max(a, b) == IF b > a THEN b ELSE a

RECURSIVE Sum(_)
Sum(s) == IF s = << >> THEN 0 ELSE Head(s) + Sum(Tail(s))

\* numpy.mean of a list
mean(h) == Sum(h) \div Len(h)

\* list.pop(0)
pop0(h) == Tail(h)

\* list.append(x)
insert_front(h, x) == << x >> \o h
append(h, x) == Append(h, x)

\* int(x) of a thrust value held in 1/Scale units: truncation toward zero
int(x) == IF x >= 0 THEN x \div Scale ELSE -((-x) \div Scale)

\* The command-line tokens tried, and what float() and int() make of them:
\* << >> stands for the ValueError the conversion raises.
Tokens == {"abc", "0.5", "0", "1", "-1"}

float_of(tok) ==
    CASE tok = "0.5" -> << 10 >>
      [] tok = "0"   -> << 0 >>
      [] tok = "1"   -> << 20 >>
      [] tok = "-1"  -> << -20 >>
      [] OTHER       -> << >>

int_of(tok) ==
    CASE tok = "0"   -> << 0 >>
      [] tok = "1"   -> << 1 >>
      [] tok = "-1"  -> << -1 >>
      [] OTHER       -> << >>

\* len(range(int(operation_time / step_time))): the quotient of an int by
\* 0.01 is the int times 100 exactly, and a range of negative length is empty.
range_len_off_by_one(op) == max(op * StepsPerSecond, 0) + 1
range_len(op) == max(op * StepsPerSecond, 0)

\* output = max(min(output, 60000), 0)
clamp_no_upper(x) == max(x, MinThrust * Scale)
clamp(x) == max(min(x, MaxThrust * Scale), MinThrust * Scale)

\* the k-th kind of telemetry sample
Sample(k) == [z |-> WindowLen * SampleMean * k, thrust |-> SampleThrust * k]
Samples == { Sample(1), Sample(2) }

ArgLists == UNION { [1..n -> Tokens] : n \in 0..MaxArgc }

Bound(o) == o # << >>
Val(o) == o[1]

Cmd(phase, thrust) == [phase |-> phase, thrust |-> thrust]

---------------------------------------------------------------------------
(* Initial state: the module globals of lines 16-22, before main runs *)

Init ==
    /\ argv \in ArgLists
    /\ main_pc = "start"
    /\ exit_status = << >>
    /\ reported = ""
    /\ drivers = FALSE
    /\ target_altitude = 0
    /\ operation_time = 0
    /\ link = "none"
    /\ lost_in_flight = FALSE
    /\ log_state = "idle"
    /\ current_thrust = 0
    /\ current_altitude = 0
    /\ average_altitude = 0
    /\ altitude_history = << 0, 0, 0, 0, 0 >>
    /\ cb_pc = "idle"
    /\ cb_data = Sample(1)
    /\ samples = 0
    /\ arrived = << >>
    /\ hover_pc = "idle"
    /\ i = 0
    /\ time_steps = 0
    /\ integral = 0
    /\ prev_error = 0
    /\ error = 0
    /\ output = << >>
    /\ flight_data = << >>
    /\ sent = << >>
    /\ plotted = << >>

---------------------------------------------------------------------------
(* main *)

\* lines 192-196: wrong number of arguments: print and return
main_bad_count ==
    /\ main_pc = "start"
    /\ Len(argv) # 2
    /\ main_pc' = "returned"
    /\ reported' = "Bad arguments! Exit."
    /\ exit_status' = << 0 >>
    /\ UNCHANGED << argv, drivers, target_altitude, operation_time, link,
                    lost_in_flight, log_state >>
    /\ UNCHANGED << teleVars, hoverVars >>

\* line 199: float(args[0]) raises ValueError, uncaught
main_bad_altitude ==
    /\ main_pc = "start"
    /\ Len(argv) = 2
    /\ ~Bound(float_of(argv[1]))
    /\ main_pc' = "raised"
    /\ reported' = "ValueError"
    /\ exit_status' = << 1 >>
    /\ UNCHANGED << argv, drivers, target_altitude, operation_time, link,
                    lost_in_flight, log_state >>
    /\ UNCHANGED << teleVars, hoverVars >>

\* lines 199-201: the altitude is stored, int(args[1]) raises ValueError
main_bad_duration ==
    /\ main_pc = "start"
    /\ Len(argv) = 2
    /\ Bound(float_of(argv[1]))
    /\ ~Bound(int_of(argv[2]))
    /\ target_altitude' = Val(float_of(argv[1]))
    /\ main_pc' = "raised"
    /\ reported' = "ValueError"
    /\ exit_status' = << 1 >>
    /\ UNCHANGED << argv, drivers, operation_time, link, lost_in_flight, log_state >>
    /\ UNCHANGED << teleVars, hoverVars >>

\* lines 199-207 and HoverPid.__init__ (29-42): both arguments parse, the
\* drivers are initialised and the link is opened
main_run ==
    /\ main_pc = "start"
    /\ Len(argv) = 2
    /\ Bound(float_of(argv[1]))
    /\ Bound(int_of(argv[2]))
    /\ target_altitude' = Val(float_of(argv[1]))
    /\ operation_time' = Val(int_of(argv[2]))
    /\ drivers' = TRUE
    /\ link' = "opening"
    /\ main_pc' = "running"
    /\ UNCHANGED << argv, exit_status, reported, lost_in_flight, log_state >>
    /\ UNCHANGED << teleVars, hoverVars >>

---------------------------------------------------------------------------
(* The phase of the sequencer, read off the position of _hover *)

Phase ==
    CASE hover_pc = "idle"                        -> "NotStarted"
      [] hover_pc = "unlock"                      -> "Unlocking"
      [] hover_pc \in {"loop", "send", "record"}  -> "Hovering"
      [] hover_pc = "land"                        -> "Landing"
      [] hover_pc = "poweroff"                    -> "PoweredOff"
      [] hover_pc \in {"render", "close", "done"} -> "Terminated"
      [] OTHER                                    -> "Failed"

---------------------------------------------------------------------------
(* Connection callbacks *)

\* a handler of a link event that also starts both threads
starts_threads_on_failure ==
    /\ link = "opening"
    /\ link' = "failed"
    /\ log_state' = "starting"
    /\ hover_pc' = "unlock"
    /\ UNCHANGED << mainVars, teleVars, lost_in_flight, i, time_steps, integral,
                    prev_error, error, output, flight_data, sent, plotted >>

\* _connected (44-56): start the logging thread and the hover thread
connected ==
    /\ link = "opening"
    /\ link' = "connected"
    /\ log_state' = "starting"
    /\ hover_pc' = "unlock"
    /\ UNCHANGED << mainVars, teleVars, lost_in_flight, i, time_steps, integral,
                    prev_error, error, output, flight_data, sent, plotted >>

\* _connection_failed (58-61): print only
connection_failed ==
    /\ link = "opening"
    /\ link' = "failed"
    /\ UNCHANGED << mainVars, teleVars, hoverVars, lost_in_flight, log_state >>

\* _connection_lost (63-66) followed by _disconnected (68-70): print only
connection_lost ==
    /\ link = "connected"
    /\ link' = "lost"
    /\ lost_in_flight' = (Phase \in {"Hovering", "Landing"})
    /\ UNCHANGED << mainVars, teleVars, hoverVars, log_state >>

---------------------------------------------------------------------------
(* _logging (90-111) *)

\* add_config and start succeed: the callbacks are registered
logging_started ==
    /\ log_state = "starting"
    /\ log_state' = "started"
    /\ UNCHANGED << mainVars, teleVars, hoverVars, link, lost_in_flight >>

\* add_config raises KeyError or AttributeError: caught, printed
logging_failed ==
    /\ log_state = "starting"
    /\ log_state' = "failed"
    /\ UNCHANGED << mainVars, teleVars, hoverVars, link, lost_in_flight >>

---------------------------------------------------------------------------
(* _data_log_data (72-84), one step per statement *)

ReceiverScheduled == i <= MaxArrivalTick

\* the log API calls the callback with a new sample
data_log_data_call ==
    /\ log_state = "started"
    /\ link = "connected"
    /\ cb_pc = "idle"
    /\ samples < MaxSamples
    /\ ReceiverScheduled
    /\ \E d \in Samples : cb_data' = d
    /\ arrived' = Append(arrived, cb_data')
    /\ samples' = samples + 1
    /\ cb_pc' = "l75"
    /\ UNCHANGED << current_thrust, current_altitude, average_altitude,
                    altitude_history >>
    /\ UNCHANGED << mainVars, hoverVars, link, lost_in_flight, log_state >>

\* line 75: current_altitude = data['stateEstimate.z']
data_log_data_75 ==
    /\ cb_pc = "l75"
    /\ ReceiverScheduled
    /\ current_altitude' = cb_data.z
    /\ cb_pc' = "l77"
    /\ UNCHANGED << current_thrust, average_altitude, altitude_history,
                    cb_data, samples, arrived >>
    /\ UNCHANGED << mainVars, hoverVars, link, lost_in_flight, log_state >>

\* line 77: altitude_history.pop(0)
data_log_data_77 ==
    /\ cb_pc = "l77"
    /\ ReceiverScheduled
    /\ altitude_history' = pop0(altitude_history)
    /\ cb_pc' = "l78"
    /\ UNCHANGED << current_thrust, current_altitude, average_altitude,
                    cb_data, samples, arrived >>
    /\ UNCHANGED << mainVars, hoverVars, link, lost_in_flight, log_state >>

\* line 78: altitude_history.append(current_altitude)
data_log_data_78 ==
    /\ cb_pc = "l78"
    /\ ReceiverScheduled
    /\ altitude_history' = append(altitude_history, current_altitude)
    /\ cb_pc' = "l81"
    /\ UNCHANGED << current_thrust, current_altitude, average_altitude,
                    cb_data, samples, arrived >>
    /\ UNCHANGED << mainVars, hoverVars, link, lost_in_flight, log_state >>

\* line 81: average_altitude = mean(altitude_history)
data_log_data_81 ==
    /\ cb_pc = "l81"
    /\ ReceiverScheduled
    /\ average_altitude' = mean(altitude_history)
    /\ cb_pc' = "l84"
    /\ UNCHANGED << current_thrust, current_altitude, altitude_history,
                    cb_data, samples, arrived >>
    /\ UNCHANGED << mainVars, hoverVars, link, lost_in_flight, log_state >>

\* line 84: current_thrust = data['stabilizer.thrust']
data_log_data_84 ==
    /\ cb_pc = "l84"
    /\ ReceiverScheduled
    /\ current_thrust' = cb_data.thrust
    /\ cb_pc' = "idle"
    /\ UNCHANGED << current_altitude, average_altitude, altitude_history,
                    cb_data, samples, arrived >>
    /\ UNCHANGED << mainVars, hoverVars, link, lost_in_flight, log_state >>

data_log_data ==
    \/ data_log_data_call
    \/ data_log_data_75
    \/ data_log_data_77
    \/ data_log_data_78
    \/ data_log_data_81
    \/ data_log_data_84

---------------------------------------------------------------------------
(* _hover (113-186) *)

\* lines 118-144: unlock command, settle delay, locals of the control law
hover_unlock ==
    /\ hover_pc = "unlock"
    /\ sent' = Append(sent, Cmd("Unlocking", 0))
    /\ flight_data' = << >>
    /\ integral' = 0
    /\ prev_error' = 0
    /\ time_steps' = range_len(operation_time)
    /\ i' = 0
    /\ hover_pc' = "loop"
    /\ UNCHANGED << error, output, plotted >>
    /\ UNCHANGED << mainVars, teleVars, link, lost_in_flight, log_state >>

\* line 150: integral = integral + ki * error * step_time
integrate_limited(integ, e) ==
    max(min(integ + ki_step * e, 1000 * Scale), -(1000 * Scale))
integrate(integ, e) == integ + ki_step * e

\* lines 149-152: output = base_thrust + proportional + integral + derivative
pid_output_no_base(e, integ, prev) ==
    kp * e + integ + kd_step * (e - prev)
pid_output(e, integ, prev) ==
    base_thrust * Scale + kp * e + integ + kd_step * (e - prev)

\* lines 147-154: one more tick; read the smoothed altitude, run the law
hover_tick ==
    /\ hover_pc = "loop"
    /\ i < time_steps
    /\ LET e     == target_altitude - average_altitude
           integ == integrate(integral, e)
           raw   == pid_output(e, integ, prev_error)
       IN  /\ error' = e
           /\ integral' = integ
           /\ output' = << clamp(raw) >>
           /\ prev_error' = e
    /\ hover_pc' = "send"
    /\ UNCHANGED << i, time_steps, flight_data, sent, plotted >>
    /\ UNCHANGED << mainVars, teleVars, link, lost_in_flight, log_state >>

\* lines 156-157: send_setpoint(0, 0, 0, int(output))
hover_send ==
    /\ hover_pc = "send"
    /\ sent' = Append(sent, Cmd("Hovering", int(Val(output))))
    /\ hover_pc' = "record"
    /\ UNCHANGED << i, time_steps, integral, prev_error, error, output,
                    flight_data, plotted >>
    /\ UNCHANGED << mainVars, teleVars, link, lost_in_flight, log_state >>

\* lines 158-159: append the record, sleep, next iteration
hover_record ==
    /\ hover_pc = "record"
    /\ flight_data' = Append(flight_data,
           << Val(output), current_thrust, current_altitude, error >>)
    /\ i' = i + 1
    /\ hover_pc' = "loop"
    /\ UNCHANGED << time_steps, integral, prev_error, error, output, sent,
                    plotted >>
    /\ UNCHANGED << mainVars, teleVars, link, lost_in_flight, log_state >>

\* line 147: the range is exhausted
hover_loop_end ==
    /\ hover_pc = "loop"
    /\ i >= time_steps
    /\ hover_pc' = "land"
    /\ UNCHANGED << i, time_steps, integral, prev_error, error, output,
                    flight_data, sent, plotted >>
    /\ UNCHANGED << mainVars, teleVars, link, lost_in_flight, log_state >>

\* line 163: output -= 75
land_no_decrement(x) == x
land_decrement_more(x) == x - (LandingStep + 1) * Scale
land_decrement(x) == x - LandingStep * Scale

\* a landing loop that runs on until the output is at or below 19925
land_step_late ==
    /\ hover_pc = "land"
    /\ Bound(output)
    /\ Val(output) > (LandingFloor - LandingStep) * Scale
    /\ output' = << land_decrement(Val(output)) >>
    /\ sent' = Append(sent, Cmd("Landing", int(land_decrement(Val(output)))))
    /\ UNCHANGED << hover_pc, i, time_steps, integral, prev_error, error,
                    flight_data, plotted >>
    /\ UNCHANGED << mainVars, teleVars, link, lost_in_flight, log_state >>

\* a landing step that also appends a record
land_step_recording ==
    /\ hover_pc = "land"
    /\ Bound(output)
    /\ Val(output) > LandingFloor * Scale
    /\ output' = << land_decrement(Val(output)) >>
    /\ sent' = Append(sent, Cmd("Landing", int(land_decrement(Val(output)))))
    /\ flight_data' = Append(flight_data,
           << land_decrement(Val(output)), current_thrust, current_altitude,
              error >>)
    /\ UNCHANGED << hover_pc, i, time_steps, integral, prev_error, error,
                    plotted >>
    /\ UNCHANGED << mainVars, teleVars, link, lost_in_flight, log_state >>

\* lines 162-165: one step of the landing ramp
land_step ==
    /\ hover_pc = "land"
    /\ Bound(output)
    /\ Val(output) > LandingFloor * Scale
    /\ output' = << land_decrement(Val(output)) >>
    /\ sent' = Append(sent, Cmd("Landing", int(land_decrement(Val(output)))))
    /\ UNCHANGED << hover_pc, i, time_steps, integral, prev_error, error,
                    flight_data, plotted >>
    /\ UNCHANGED << mainVars, teleVars, link, lost_in_flight, log_state >>

\* line 162: the loop condition is false
land_end ==
    /\ hover_pc = "land"
    /\ Bound(output)
    /\ ~(Val(output) > LandingFloor * Scale)
    /\ hover_pc' = "poweroff"
    /\ UNCHANGED << i, time_steps, integral, prev_error, error, output,
                    flight_data, sent, plotted >>
    /\ UNCHANGED << mainVars, teleVars, link, lost_in_flight, log_state >>

\* line 162: output was never assigned (no tick ran): UnboundLocalError ends
\* the thread
land_unbound ==
    /\ hover_pc = "land"
    /\ ~Bound(output)
    /\ hover_pc' = "crashed"
    /\ UNCHANGED << i, time_steps, integral, prev_error, error, output,
                    flight_data, sent, plotted >>
    /\ UNCHANGED << mainVars, teleVars, link, lost_in_flight, log_state >>

\* lines 168-169: cut the power
power_off ==
    /\ hover_pc = "poweroff"
    /\ sent' = Append(sent, Cmd("PoweredOff", 0))
    /\ hover_pc' = "render"
    /\ UNCHANGED << i, time_steps, integral, prev_error, error, output,
                    flight_data, plotted >>
    /\ UNCHANGED << mainVars, teleVars, link, lost_in_flight, log_state >>

\* lines 172-183: the altitude column of flight_data is plotted and saved
render ==
    /\ hover_pc = "render"
    /\ plotted' = << [k \in 1..Len(flight_data) |-> flight_data[k][3]] >>
    /\ hover_pc' = "close"
    /\ UNCHANGED << i, time_steps, integral, prev_error, error, output,
                    flight_data, sent >>
    /\ UNCHANGED << mainVars, teleVars, link, lost_in_flight, log_state >>

\* lines 185-186: close_link()
close_link ==
    /\ hover_pc = "close"
    /\ link' = "closed"
    /\ hover_pc' = "done"
    /\ UNCHANGED << i, time_steps, integral, prev_error, error, output,
                    flight_data, sent, plotted >>
    /\ UNCHANGED << mainVars, teleVars, lost_in_flight, log_state >>

hover ==
    \/ hover_unlock
    \/ hover_tick
    \/ hover_send
    \/ hover_record
    \/ hover_loop_end
    \/ land_step
    \/ land_end
    \/ land_unbound
    \/ power_off
    \/ render
    \/ close_link

---------------------------------------------------------------------------
(* Specifications *)

Next ==
    \/ main_bad_count
    \/ main_bad_altitude
    \/ main_bad_duration
    \/ main_run
    \/ connected
    \/ connection_failed
    \/ connection_lost
    \/ logging_started
    \/ logging_failed
    \/ data_log_data
    \/ hover

Spec == Init /\ [][Next]_vars

---------------------------------------------------------------------------
(* Properties *)

LastSent == sent[Len(sent)]

AfterHovering ==
    hover_pc \in {"land", "poweroff", "render", "close", "done", "crashed"}

\* the number of ticks a run of operation_time seconds has room for
Ticks == IF operation_time > 0 THEN operation_time * StepsPerSecond ELSE 0

\* the number of Landing steps taken so far (the commands after the unlock
\* command and the Hovering commands)
LandingSteps == Len(sent) - 1 - time_steps

C2_ThrustRange ==
    /\ sent # << >> => LastSent.thrust \in 0..60000
    /\ hover_pc = "send" =>
          /\ Val(output) >= 0
          /\ Val(output) <= 60000 * Scale

\* a run whose first Hovering command was clamped at 60000 and whose second
\* was clamped at 0
C2_Witness ==
    /\ Len(sent) >= 3
    /\ sent[2] = Cmd("Hovering", 60000)
    /\ sent[3] = Cmd("Hovering", 0)

PhaseOrder ==
    { << "NotStarted", "Unlocking" >>, << "Unlocking", "Hovering" >>,
      << "Hovering", "Landing" >>, << "Landing", "PoweredOff" >>,
      << "PoweredOff", "Terminated" >> }

\* C3: the sequencer only ever moves from a phase to the next one of
\* Unlocking, Hovering, Landing, PoweredOff, Terminated.
C3_LinearSequence ==
    [][Phase' # Phase => << Phase, Phase' >> \in PhaseOrder]_vars

\* C4: the Landing ramp terminates.  Started from the final Hovering output,
\* which is at most 60000, the output after n Landing steps is that output
\* less 75 * n, every Landing command is 75 less than the command before
\* it, a step is taken only from an output above 20000, so there are at
\* most ceil(40000 / 75) steps; the thread can always take its next step,
\* and Landing is left with an output at or below 20000.
C4_LandingTerminates ==
    /\ hover_pc = "land" => ENABLED hover
    /\ (hover_pc = "land" /\ Bound(output)) =>
          LET final == flight_data[Len(flight_data)][1]
          IN  /\ final <= 60000 * Scale
              /\ LandingSteps >= 0
              /\ LandingSteps <= (40000 + 74) \div 75
              /\ Val(output) = final - 75 * Scale * LandingSteps
              /\ LandingSteps >= 1 =>
                    /\ LastSent.phase = "Landing"
                    /\ LastSent.thrust = sent[Len(sent) - 1].thrust - 75
                    /\ Val(output) + 75 * Scale > 20000 * Scale
    /\ hover_pc = "poweroff" => Val(output) <= 20000 * Scale

\* the ramp ran at least one step and was left
C4_Witness ==
    /\ hover_pc = "poweroff"
    /\ LandingSteps >= 1
    /\ LastSent.phase = "Landing"

\* C5: a started flight does not fail.
C5_FlightDoesNotFail ==
    hover_pc # "crashed"

\* C6: no control tick reads the smoothed altitude while a telemetry push
\* (pop, append, mean) is partway through.
C6_MutualExclusion ==
    [][(hover_pc = "loop" /\ hover_pc' = "send")
          => cb_pc \notin {"l78", "l81"}]_vars

\* C7: once the connection was lost during Hovering or Landing, no further
\* command is sent.
C7_AbortOnDisconnect ==
    [][lost_in_flight => sent' = sent]_vars

\* C8: nothing is started and no command is sent before the Connected event;
\* after a connection failure that stays so.
C8_NothingBeforeConnected ==
    link \in {"none", "opening", "failed"} =>
        /\ sent = << >>
        /\ hover_pc = "idle"
        /\ log_state = "idle"
        /\ cb_pc = "idle"
        /\ samples = 0

\* the connection attempt of a well-formed invocation failed
C8_Witness ==
    /\ main_pc = "running"
    /\ link = "failed"

\* C9: when the telemetry subscription could not be started the flight
\* still completes: every tick computes its error from the zero smoothed
\* altitude and the thread does not fail.
C9_DegradedFlightCompletes ==
    log_state = "failed" =>
        /\ average_altitude = 0
        /\ Phase = "Hovering" => error \in {0, target_altitude}
        /\ hover_pc # "crashed"

\* C10: an invocation with a wrong number of arguments, or with arguments
\* that do not parse, reports an error, exits with a non-zero status and
\* opens no connection.
C10_BadArgumentsRejected ==
    main_pc \in {"returned", "raised"} =>
        /\ reported # ""
        /\ exit_status # << >>
        /\ exit_status # << 0 >>
        /\ ~drivers
        /\ link = "none"

\* the altitudes of the samples that arrived, in order
ArrivedAltitudes == [k \in 1..Len(arrived) |-> arrived[k].z]

\* the last five entries of a sequence of at least five
LastFive(s) == SubSeq(s, Len(s) - 4, Len(s))

C12_WindowLength ==
    Len(altitude_history) = 5

\* the error was zero at every Hovering tick run so far
ZeroErrorSoFar ==
    /\ hover_pc \in {"send", "record"} => error = 0
    /\ \A k \in 1..Len(flight_data) : flight_data[k][4] = 0

\* C13: as long as the error has been zero at every Hovering tick, the
\* integral accumulator is 0, every output recorded is the base output 38250
\* and the command just sent is 38250.
C13_ZeroErrorHoldsBase ==
    ZeroErrorSoFar =>
        /\ integral = 0
        /\ hover_pc \in {"send", "record"} => output = << 38250 * Scale >>
        /\ hover_pc = "record" => LastSent = Cmd("Hovering", 38250)
        /\ \A k \in 1..Len(flight_data) : flight_data[k][1] = 38250 * Scale

\* a one-second flight whose 100 ticks all had zero error
C13_Witness ==
    /\ hover_pc = "land"
    /\ Len(flight_data) = 100
    /\ ZeroErrorSoFar
    /\ sent[101] = Cmd("Hovering", 38250)

\* C14: the flight record is append-only, with one record per Hovering tick
\* and none in any other phase: flight_data changes only in the record step
\* of a tick, which adds one record at the end, the record of tick number i;
\* and when the record is handed to plotting it has operation_time /
\* step_time entries, one plotted altitude for each, in the same order.
C14_RecordAppendOnly ==
    [][/\ flight_data' # flight_data =>
             /\ hover_pc = "record"
             /\ Len(flight_data) = i
             /\ Len(flight_data') = i + 1
             /\ SubSeq(flight_data', 1, i) = flight_data
             /\ flight_data'[i + 1] =
                   << Val(output), current_thrust, current_altitude, error >>
       /\ (hover_pc = "record" /\ hover_pc' # "record") =>
             flight_data' # flight_data
       /\ hover_pc' \in {"close", "done"} =>
             /\ Len(flight_data') = operation_time * 100
             /\ Len(Val(plotted')) = Len(flight_data')
             /\ \A k \in 1..Len(flight_data') :
                   Val(plotted')[k] = flight_data'[k][3]
      ]_vars

\* the records of a one-second flight have been plotted: 100 of them, the
\* first one taken while telemetry had already arrived
C14_Witness ==
    /\ hover_pc = "close"
    /\ Len(flight_data) = 100
    /\ flight_data[1][3] # 0
    /\ Val(plotted)[1] = flight_data[1][3]

\* the final Hovering output: the output of the last record
FinalOutput == flight_data[Len(flight_data)][1]

\* ceil(a / b) for b > 0
Ceil(a, b) == -((-a) \div b)

\* ceil((final_output - 20000) / 75), in the thrust unit of the model
RampLength == Ceil(FinalOutput - 20000 * Scale, 75 * Scale)

\* C15, as stated: the Landing phase sends ceil((final_output - 20000) / 75)
\* commands, whatever the final output.
C15_LandingCountAsStated ==
    hover_pc = "poweroff" => LandingSteps = RampLength

\* C15, amended: the Landing phase sends max(0, ceil((final_output - 20000)
\* / 75)) commands, and the whole flight sends one unlock command, the
\* Hovering commands, those Landing commands and one power-off command.
C15_LandingCount ==
    /\ hover_pc = "poweroff" =>
          LandingSteps = (IF RampLength > 0 THEN RampLength ELSE 0)
    /\ hover_pc \in {"render", "close", "done"} =>
          /\ Len(sent) = 1 + Ticks
                           + (IF RampLength > 0 THEN RampLength ELSE 0) + 1
          /\ sent[1] = Cmd("Unlocking", 0)
          /\ LastSent = Cmd("PoweredOff", 0)
          /\ sent[Len(sent) - 1].phase \in {"Hovering", "Landing"}

\* a flight that ended after a ramp of at least one step
C15_Witness ==
    /\ hover_pc = "done"
    /\ RampLength >= 1
    /\ sent[Len(sent) - 1].phase = "Landing"

\* C16: the smoothed altitude a tick reads is the mean of the window as it
\* is at that moment.
C16_ReadsMeanOfWindow ==
    [][(hover_pc = "loop" /\ hover_pc' = "send") =>
          average_altitude * Len(altitude_history) = Sum(altitude_history)
      ]_vars

\* C17: the observed thrust and altitude of every record come from one and
\* the same telemetry sample, or are both the initial zeros.
C17_RecordFromOneSample ==
    [][flight_data' # flight_data =>
          LET rec == flight_data'[Len(flight_data')]
          IN  \/ rec[2] = 0 /\ rec[3] = 0
              \/ \E k \in 1..Len(arrived) :
                    rec[2] = arrived[k].thrust /\ rec[3] = arrived[k].z
      ]_vars

\* C18: every Hovering tick adds Ki * error * step_time (2800/779 per
\* altitude unit of error) to the integral accumulator, whether or not the
\* output it computes is clamped, and stores its error as the previous
\* error; no other step of the flight changes either of them.
C18_IntegralUnconditional ==
    [][IF hover_pc = "loop" /\ hover_pc' = "send"
       THEN /\ error' = target_altitude - average_altitude
            /\ integral' = integral + 2800 * error'
            /\ prev_error' = error'
       ELSE hover_pc # "unlock" =>
               /\ integral' = integral
               /\ prev_error' = prev_error
      ]_vars

\* the second tick of a flight, clamped at 0 after a first tick clamped at
\* 60000: the accumulator holds the contributions of both ticks
C18_Witness ==
    /\ hover_pc = "send"
    /\ i = 1
    /\ flight_data[1][1] = 60000 * Scale
    /\ output = << 0 >>
    /\ integral = 2800 * (flight_data[1][4] + error)
    /\ integral # 0
    /\ prev_error = error

\* the Hovering loop is over and it left an output behind
HoveringDone == AfterHovering /\ hover_pc # "crashed" /\ Len(flight_data) > 0

\* the parts of C19 that do not depend on the lower limit of the ramp: a
\* final output at or below 20000 leaves Landing without a command and the
\* power-off command directly after the last Hovering command; a final output
\* above 20000 ends Landing on a command at or below 20000
LandingEnds ==
    /\ (HoveringDone /\ FinalOutput <= 20000 * Scale) =>
          /\ hover_pc \in {"land", "poweroff"} => LandingSteps = 0
          /\ Len(sent) > 1 + time_steps =>
                /\ Len(sent) = 2 + time_steps
                /\ sent[2 + time_steps] = Cmd("PoweredOff", 0)
          /\ hover_pc \in {"render", "close", "done"} =>
                Len(sent) = 2 + time_steps
    /\ (HoveringDone /\ FinalOutput > 20000 * Scale /\ hover_pc # "land") =>
          /\ sent[Len(sent) - (IF hover_pc = "poweroff" THEN 0 ELSE 1)].phase
                = "Landing"
          /\ sent[Len(sent) - (IF hover_pc = "poweroff" THEN 0 ELSE 1)].thrust
                <= 20000

\* C19, as stated: with a final output at or below 20000 Landing sends nothing
\* and the power-off command follows the last Hovering command; otherwise
\* every Landing command is greater than 19925 and the last one is at or
\* below 20000.
C19_LandingBoundsAsStated ==
    /\ LandingEnds
    /\ (Len(sent) > 0 /\ LastSent.phase = "Landing") => LastSent.thrust > 19925

\* C19, amended: the same, except that a Landing command is the integer part
\* of an output greater than 19925, so the command itself is at or above
\* 19925 and may equal it.
C19_LandingBounds ==
    /\ LandingEnds
    /\ (Len(sent) > 0 /\ LastSent.phase = "Landing") =>
          /\ hover_pc \in {"land", "poweroff"}
          /\ Val(output) > 19925 * Scale
          /\ LastSent.thrust = int(Val(output))
          /\ LastSent.thrust >= 19925

\* a ramp that started above 20000 has ended on the command 19925
C19_Witness ==
    /\ hover_pc = "poweroff"
    /\ FinalOutput > 20000 * Scale
    /\ LandingSteps > 0
    /\ LastSent = Cmd("Landing", 19925)

===========================================================================
